---- MODULE Spec2Model ----
(***************************************************************************)
(* A model of src/src/regexUtils.js: the eight operations of the regex     *)
(* utility library, each a pure function of its arguments.                 *)
(*                                                                         *)
(* A JavaScript string is a sequence of characters; a character is a       *)
(* one-element TLA+ string, and a character outside ASCII (and the quote,  *)
(* the backslash and the grave accent) is named by its code point, as in   *)
(* "U+00E9".  A JavaScript value is a record [t, s]: t is the result of    *)
(* typeof (or "null"), s the characters of a string.                       *)
(* A regular expression literal of the source is a tree (Cls, Seq, Alt,    *)
(* Rep, ...) and M is the backtracking matcher that RegExp.prototype.exec  *)
(* runs on it.                                                             *)
(***************************************************************************)
EXTENDS Integers, Sequences, FiniteSets, TLC

VARIABLES op, arg, opts, outcome, ret

vars == <<op, arg, opts, outcome, ret>>

(***************************************************************************)
(* Characters and the character classes the source's patterns name.        *)
(***************************************************************************)
AsciiUpperSeq ==
  << "A","B","C","D","E","F","G","H","I","J","K","L","M",
     "N","O","P","Q","R","S","T","U","V","W","X","Y","Z" >>

AsciiLowerSeq ==
  << "a","b","c","d","e","f","g","h","i","j","k","l","m",
     "n","o","p","q","r","s","t","u","v","w","x","y","z" >>

Range(f) == { f[x] : x \in DOMAIN f }

AsciiUpper == Range(AsciiUpperSeq)

AsciiLower == Range(AsciiLowerSeq)

\* [a-zA-Z]
AsciiLetter == AsciiUpper \cup AsciiLower

\* \d and [0-9]
Digit == {"0","1","2","3","4","5","6","7","8","9"}

\* \w, the class \b is defined by
WordChar == AsciiLetter \cup Digit \cup {"_"}

\* \s : space, tab, line feed, carriage return, no-break space
WhiteSpace == {" ", "\t", "\n", "\r", "U+00A0"}

\* What "." refuses without the s flag
LineTerminator == {"\n", "\r"}

\* \p{Lu}: the ASCII capitals and LATIN CAPITAL LETTER E WITH ACUTE
UnicodeLu == AsciiUpper \cup {"U+00C9"}

\* \p{Ll}: the ASCII small letters, e with acute, and sharp s
UnicodeLl == AsciiLower \cup {"U+00E9", "U+00DF"}

\* \p{L} / \p{Letter}: Lu, Ll and a letter without case (CJK U+4E2D)
UnicodeLetter == UnicodeLu \cup UnicodeLl \cup {"U+4E2D"}

\* \p{Number}: decimal digits of every script (ARABIC-INDIC DIGIT THREE) and
\* other numbers (VULGAR FRACTION ONE HALF)
UnicodeNumber == Digit \cup {"U+0663", "U+00BD"}

AsciiPunct ==
  { "!", "U+0022", "#", "$", "%", "&", "'", "(", ")", "*", "+", ",", "-", ".",
    "/", ":", ";", "<", "=", ">", "?", "@", "[", "U+005C", "]", "^", "_", "U+0060",
    "{", "|", "}", "~" }

Char == UnicodeLetter \cup UnicodeNumber \cup WhiteSpace \cup AsciiPunct

(***************************************************************************)
(* JavaScript values.                                                      *)
(***************************************************************************)
Str(s) == [t |-> "string", s |-> s]

Undefined == [t |-> "undefined", s |-> <<>>]

Null == [t |-> "null", s |-> <<>>]

Num == [t |-> "number", s |-> <<>>]

\* typeof v !== "string" || v.length === 0
NotStringOrEmpty(v) == v.t # "string" \/ Len(v.s) = 0

(***************************************************************************)
(* Regular expressions.                                                    *)
(***************************************************************************)
\* [...]
Cls(S) == [k |-> "cls", neg |-> FALSE, set |-> S]

\* [^...]
NCls(S) == [k |-> "cls", neg |-> TRUE, set |-> S]

\* .
Dot == NCls(LineTerminator)

\* a literal character
Lit(c) == Cls({c})

\* r1 r2 ... rn
Cat(rs) == [k |-> "seq", rs |-> rs]

\* r1 | r2 | ... | rn
Alt(rs) == [k |-> "alt", rs |-> rs]

\* r{min,max}, greedy
Rep(r, min, max) == [k |-> "rep", r |-> r, min |-> min, max |-> max, unbounded |-> FALSE]

\* r{min,}, greedy
RepFrom(r, min) == [k |-> "rep", r |-> r, min |-> min, max |-> min, unbounded |-> TRUE]

\* r+
Plus(r) == RepFrom(r, 1)

\* r*
Star(r) == RepFrom(r, 0)

\* r?
Opt(r) == Rep(r, 0, 1)

\* ^ (no m flag)
Bol == [k |-> "bol"]

\* $ (no m flag)
Eol == [k |-> "eol"]

\* \b
WordB == [k |-> "wordb"]

\* (?=r)
Ahead(r) == [k |-> "look", r |-> r, neg |-> FALSE]

\* (?!r)
NotAhead(r) == [k |-> "look", r |-> r, neg |-> TRUE]

\* (?<!c) for a character class c
NotBehind(c) == [k |-> "behind", r |-> c, neg |-> TRUE]

\* Whether the character class c accepts the character ch
Accepts(c, ch) == (ch \in c.set) # c.neg

\* IsWordChar of the \b assertion: the character after offset i - 1
IsWordAt(s, i) == i >= 1 /\ i <= Len(s) /\ s[i] \in WordChar

RECURSIVE Flatten(_)

\* The concatenation of a sequence of sequences, by halves
Flatten(ss) ==
  IF Len(ss) = 0 THEN <<>>
  ELSE IF Len(ss) = 1 THEN ss[1]
  ELSE Flatten(SubSeq(ss, 1, Len(ss) \div 2))
       \o Flatten(SubSeq(ss, Len(ss) \div 2 + 1, Len(ss)))

\* A repetition of a character class: the class takes the longest run it can
\* (up to max characters) and gives the characters back one by one
MRepCls(re, s, i) ==
  LET refused == { j \in (i + 1) .. Len(s) : ~Accepts(re.r, s[j]) }
      run == IF refused = {} THEN Len(s) - i
             ELSE (CHOOSE j \in refused : \A l \in refused : j <= l) - 1 - i
      most == IF re.unbounded \/ run <= re.max THEN run ELSE re.max
  IN  IF most < re.min THEN <<>>
      ELSE [n \in 1 .. (most - re.min + 1) |-> i + most - (n - 1)]

RECURSIVE M(_, _, _)
RECURSIVE MSeq(_, _, _, _)
RECURSIVE MRep(_, _, _, _)

\* The offsets at which a match of re that starts at offset i of s can end,
\* in the order the backtracking matcher tries them (the first is the match
\* exec reports when nothing follows re).
M(re, s, i) ==
  CASE re.k = "cls" ->
         IF i < Len(s) /\ Accepts(re, s[i + 1]) THEN <<i + 1>> ELSE <<>>
    [] re.k = "seq" -> MSeq(re.rs, 1, s, i)
    [] re.k = "alt" -> Flatten([k \in 1 .. Len(re.rs) |-> M(re.rs[k], s, i)])
    [] re.k = "rep" ->
         IF re.r.k = "cls" THEN MRepCls(re, s, i) ELSE MRep(re, s, i, 0)
    [] re.k = "bol" -> IF i = 0 THEN <<i>> ELSE <<>>
    [] re.k = "eol" -> IF i = Len(s) THEN <<i>> ELSE <<>>
    [] re.k = "wordb" ->
         IF IsWordAt(s, i) # IsWordAt(s, i + 1) THEN <<i>> ELSE <<>>
    [] re.k = "look" ->
         IF (M(re.r, s, i) # <<>>) # re.neg THEN <<i>> ELSE <<>>
    [] re.k = "behind" ->
         IF (i >= 1 /\ Accepts(re.r, s[i])) # re.neg THEN <<i>> ELSE <<>>

\* rs[k] first, in each of its ways, then the rest of the sequence
MSeq(rs, k, s, i) ==
  IF k > Len(rs) THEN <<i>>
  ELSE LET ends == M(rs[k], s, i)
       IN  Flatten([j \in 1 .. Len(ends) |-> MSeq(rs, k + 1, s, ends[j])])

\* n iterations are done; greedy: one more iteration first (an iteration that
\* matched the empty string is not repeated), stopping last
MRep(re, s, i, n) ==
  (IF re.unbounded \/ n < re.max
     THEN LET ends == M(re.r, s, i)
          IN  Flatten([j \in 1 .. Len(ends) |->
                         IF ends[j] > i THEN MRep(re, s, ends[j], n + 1) ELSE <<>>])
     ELSE <<>>)
  \o (IF n >= re.min THEN <<i>> ELSE <<>>)

\* The offsets at which an attempt may start
Offsets(s) == 0 .. Len(s)

\* RegExp.prototype.test for a pattern without the g flag
Test(re, s) == \E i \in Offsets(s) : M(re, s, i) # <<>>

\* One match of a pattern: it covers the characters from + 1 .. to of the string
Span(from, to) == [from |-> from, to |-> to]

RECURSIVE Spans(_, _, _)

\* The matches of a pattern with the g flag, left to right from offset i:
\* the leftmost offset where the pattern matches, the first way it matches
\* there, and the next attempt where that match ended (one further on after
\* an empty match)
Spans(re, s, i) ==
  LET starts == { j \in i .. Len(s) : M(re, s, j) # <<>> }
  IN  IF starts = {} THEN <<>>
      ELSE LET from == CHOOSE j \in starts : \A l \in starts : j <= l
               to == M(re, s, from)[1]
           IN  <<Span(from, to)>> \o Spans(re, s, IF to > from THEN to ELSE from + 1)

\* The first match only (a pattern without the g flag)
FirstSpan(re, s) ==
  LET all == Spans(re, s, 0) IN IF all = <<>> THEN <<>> ELSE <<all[1]>>

\* String.prototype.slice(a, b) for 0 <= a: the characters a + 1 .. b
Slice(s, a, b) ==
  LET hi == IF b > Len(s) THEN Len(s) ELSE b
  IN  IF a >= hi THEN <<>> ELSE [n \in 1 .. (hi - a) |-> s[a + n]]

\* String.prototype.slice(a)
SliceFrom(s, a) == Slice(s, a, Len(s))

\* text.match(re) || [] for a pattern with the g flag
MatchAll(re, s) ==
  LET sp == Spans(re, s, 0)
  IN  [n \in 1 .. Len(sp) |-> Slice(s, sp[n].from, sp[n].to)]

\* String.prototype.replace: the text between the matches sp kept, the n-th
\* match replaced by to[n]
ReplaceSpans(s, sp, to) ==
  Flatten([n \in 1 .. (2 * Len(sp) + 1) |->
             IF n % 2 = 1
               THEN Slice(s,
                          IF n = 1 THEN 0 ELSE sp[(n - 1) \div 2].to,
                          IF n = 2 * Len(sp) + 1 THEN Len(s) ELSE sp[(n + 1) \div 2].from)
               ELSE to[n \div 2]])

\* s.replace(re, to) for a pattern with the g flag and a string to
ReplaceAll(re, s, to) ==
  LET sp == Spans(re, s, 0) IN ReplaceSpans(s, sp, [n \in 1 .. Len(sp) |-> to])

\* s.replace(re, to) for a pattern without the g flag
ReplaceFirst(re, s, to) ==
  LET sp == FirstSpan(re, s) IN ReplaceSpans(s, sp, [n \in 1 .. Len(sp) |-> to])

\* s.replace(re, f) for a pattern with the g flag and a function f of the
\* match, given as the operator F
ReplaceEach(re, s, F(_)) ==
  LET sp == Spans(re, s, 0)
  IN  ReplaceSpans(s, sp, [n \in 1 .. Len(sp) |-> F(Slice(s, sp[n].from, sp[n].to))])

\* String.prototype.trim
Trim(s) ==
  LET keep == { i \in 1 .. Len(s) : s[i] \notin WhiteSpace }
  IN  IF keep = {} THEN <<>>
      ELSE Slice(s, (CHOOSE i \in keep : \A j \in keep : i <= j) - 1,
                    CHOOSE i \in keep : \A j \in keep : i >= j)

\* The place of an ASCII letter in the alphabet
LetterIndex(seq, c) == CHOOSE i \in 1 .. Len(seq) : seq[i] = c

\* toUpperCase of one character (sharp s has a two-letter capital)
UpperOf(c) ==
  CASE c \in AsciiLower -> <<AsciiUpperSeq[LetterIndex(AsciiLowerSeq, c)]>>
    [] c = "U+00E9" -> <<"U+00C9">>
    [] c = "U+00DF" -> <<"S", "S">>
    [] OTHER -> <<c>>

\* toLowerCase of one character
LowerOf(c) ==
  CASE c \in AsciiUpper -> <<AsciiLowerSeq[LetterIndex(AsciiUpperSeq, c)]>>
    [] c = "U+00C9" -> <<"U+00E9">>
    [] OTHER -> <<c>>

\* String.prototype.toUpperCase
ToUpperCase(s) == Flatten([i \in 1 .. Len(s) |-> UpperOf(s[i])])

\* String.prototype.toLowerCase
ToLowerCase(s) == Flatten([i \in 1 .. Len(s) |-> LowerOf(s[i])])

\* String.prototype.startsWith for a one-character needle
StartsWith(s, c) == Len(s) >= 1 /\ s[1] = c

(***************************************************************************)
(* validateEmail                                                           *)
(***************************************************************************)
\* The pattern without its closing anchor
EmailRegexOpenEnd ==
  Cat(<< Bol,
         Rep(Cls(AsciiLetter \cup Digit \cup {".", "_", "%", "+", "-"}), 1, 64),
         Lit("@"),
         Plus(Cls(AsciiLetter \cup Digit \cup {".", "-"})),
         Lit("."),
         Rep(Cls(AsciiLetter), 2, 63) >>)

\* /^[a-zA-Z0-9._%+-]{1,64}@[a-zA-Z0-9.-]+\.[a-zA-Z]{2,63}$/
EmailRegex ==
  Cat(<< Bol,
         Rep(Cls(AsciiLetter \cup Digit \cup {".", "_", "%", "+", "-"}), 1, 64),
         Lit("@"),
         Plus(Cls(AsciiLetter \cup Digit \cup {".", "-"})),
         Lit("."),
         Rep(Cls(AsciiLetter), 2, 63),
         Eol >>)

validateEmail(email) ==
  IF NotStringOrEmpty(email) THEN FALSE ELSE Test(EmailRegex, email.s)

(***************************************************************************)
(* formatPhoneNumber                                                       *)
(***************************************************************************)
\* /^00/
LeadingZerosRegex == Cat(<<Bol, Lit("0"), Lit("0")>>)

\* The separators without the parentheses
SeparatorRegexNoParentheses == Cls(WhiteSpace \cup {"-"})

\* /[\s\-\(\)]/g
SeparatorRegex == Cls(WhiteSpace \cup {"-", "(", ")"})

\* /^(\+)[0-9]{6,15}$/
FormattedRegex == Cat(<<Bol, Lit("+"), Rep(Cls(Digit), 6, 15), Eol>>)

\* The two replacements in the other order
NormalizedStripFirst(phone) ==
  ReplaceFirst(LeadingZerosRegex, ReplaceAll(SeparatorRegex, phone, <<>>), <<"+">>)

\* phone.replace(/^00/, '+') and then .replace(/[\s\-\(\)]/g, '')
Normalized(phone) ==
  ReplaceAll(SeparatorRegex, ReplaceFirst(LeadingZerosRegex, phone, <<"+">>), <<>>)

formatPhoneNumber(phone) ==
  IF NotStringOrEmpty(phone) THEN <<>>
  ELSE LET formatted == Normalized(phone.s)
       IN  IF ~StartsWith(formatted, "+") THEN <<>>
           ELSE IF ~Test(FormattedRegex, formatted) THEN <<>>
           ELSE formatted

(***************************************************************************)
(* validateInternationalPhoneNumber                                        *)
(***************************************************************************)
\* (\+|00)
PrefixGroup == Alt(<<Lit("+"), Cat(<<Lit("0"), Lit("0")>>)>>)

\* [0-9\s\-\(\)]
PhoneBodyClass == Cls(Digit \cup WhiteSpace \cup {"-", "(", ")"})

\* (1|254|255|44|91|61|234|55|49|81)
CountryCodeGroup ==
  Alt(<< Lit("1"),
         Cat(<<Lit("2"), Lit("5"), Lit("4")>>),
         Cat(<<Lit("2"), Lit("5"), Lit("5")>>),
         Cat(<<Lit("4"), Lit("4")>>),
         Cat(<<Lit("9"), Lit("1")>>),
         Cat(<<Lit("6"), Lit("1")>>),
         Cat(<<Lit("2"), Lit("3"), Lit("4")>>),
         Cat(<<Lit("5"), Lit("5")>>),
         Cat(<<Lit("4"), Lit("9")>>),
         Cat(<<Lit("8"), Lit("1")>>) >>)

\* The patterns of requirements[0..3]:
\*   /^(\+|00)/
\*   /^(\+|00)[0-9\s\-\(\)]{6,14}[0-9]$/
\*   /^(\+|00)[0-9\s\-\(\)]*$/
\*   /^(\+|00)(1|254|255|44|91|61|234|55|49|81)\d/
PhoneRegexes ==
  << Cat(<<Bol, PrefixGroup>>),
     Cat(<<Bol, PrefixGroup, Rep(PhoneBodyClass, 6, 14), Cls(Digit), Eol>>),
     Cat(<<Bol, PrefixGroup, Star(PhoneBodyClass), Eol>>),
     Cat(<<Bol, PrefixGroup, CountryCodeGroup, Cls(Digit)>>) >>

PhoneMessages ==
  << "Must include country code (+ or 00)",
     "Valid length for the country",
     "Only digits, spaces, hyphens, or parentheses allowed",
     "Valid country code (e.g., +1, +254, +44)",
     "Valid mobile prefix for the country (if applicable)" >>

\* The early return's messages with the last two exchanged
PhoneMessagesExchanged ==
  << "Must include country code (+ or 00)",
     "Valid length for the country",
     "Only digits, spaces, hyphens, or parentheses allowed",
     "Valid mobile prefix for the country (if applicable)",
     "Valid country code (e.g., +1, +254, +44)" >>

\* The messages of the object literal returned for a phone that is not a
\* string or is empty
PhoneMessagesWhenEmpty ==
  << "Must include country code (+ or 00)",
     "Valid length for the country",
     "Only digits, spaces, hyphens, or parentheses allowed",
     "Valid country code (e.g., +1, +254, +44)",
     "Valid mobile prefix for the country (if applicable)" >>

\* /^(\+|00)(\d{1,3})/
CountryCodeRegex == Cat(<<Bol, PrefixGroup, Rep(Cls(Digit), 1, 3)>>)

\* phone.match(/^(\+|00)(\d{1,3})/): the offsets where the match can end
\* (empty: null)
countryCodeMatch(phone) == M(CountryCodeRegex, phone, 0)

\* countryCodeMatch[2]: the characters between the end of group 1 and the end
\* of the match
countryCodeOf(phone) ==
  Slice(phone, M(Cat(<<Bol, PrefixGroup>>), phone, 0)[1], countryCodeMatch(phone)[1])

\* phone.replace(/[^\d]/g, '').slice(countryCode.length)
digitsOf(phone, countryCode) ==
  SliceFrom(ReplaceAll(NCls(Digit), phone, <<>>), Len(countryCode))

\* The numbering plan: length is the set of national lengths an entry allows
countryRules ==
  { [code |-> <<"1">>, length |-> {10},
     mobilePrefixes |->
       << <<"2","0","2">>, <<"2","1","2">>, <<"3","1","0">>, <<"4","0","8">>,
          <<"4","1","5">>, <<"5","1","0">>, <<"6","5","0">>, <<"2","1","3">>,
          <<"3","2","3">>, <<"4","2","4">>, <<"6","1","9">>, <<"7","0","7">>,
          <<"8","0","5">>, <<"8","1","8">>, <<"8","3","1">>, <<"8","5","8">>,
          <<"9","0","9">>, <<"9","1","6">>, <<"9","2","5">>, <<"9","4","9">> >>],
    [code |-> <<"2","5","4">>, length |-> {9},
     mobilePrefixes |->
       << <<"7","0">>, <<"7","1">>, <<"7","2">>, <<"7","3">>, <<"7","4">>,
          <<"7","5">>, <<"7","6">>, <<"7","7">>, <<"7","8">>, <<"7","9">> >>],
    [code |-> <<"2","5","5">>, length |-> {9},
     mobilePrefixes |->
       << <<"6","5">>, <<"6","7">>, <<"6","8">>, <<"6","9">>, <<"7","1">>,
          <<"7","3">>, <<"7","4">>, <<"7","5">>, <<"7","6">>, <<"7","7">>,
          <<"7","8">>, <<"7","9">> >>],
    [code |-> <<"4","4">>, length |-> {10},
     mobilePrefixes |->
       << <<"7","4">>, <<"7","5">>, <<"7","7">>, <<"7","8">>, <<"7","9">> >>],
    [code |-> <<"9","1">>, length |-> {10},
     mobilePrefixes |-> << <<"6">>, <<"7">>, <<"8">>, <<"9">> >>],
    [code |-> <<"6","1">>, length |-> {9},
     mobilePrefixes |-> << <<"4">> >>],
    [code |-> <<"2","3","4">>, length |-> {10},
     mobilePrefixes |->
       << <<"7","0">>, <<"8","0">>, <<"8","1">>, <<"9","0">>, <<"9","1">> >>],
    [code |-> <<"5","5">>, length |-> {10, 11},
     mobilePrefixes |-> << <<"6">>, <<"7">>, <<"8">>, <<"9">> >>],
    [code |-> <<"4","9">>, length |-> {10, 11},
     mobilePrefixes |-> << <<"1","5">>, <<"1","6">>, <<"1","7">> >>],
    [code |-> <<"8","1">>, length |-> {10},
     mobilePrefixes |-> << <<"7","0">>, <<"8","0">>, <<"9","0">> >>] }

\* Whether countryRules[countryCode] is defined
HasRules(countryCode) == \E r \in countryRules : r.code = countryCode

\* countryRules[countryCode]
RulesOf(countryCode) == CHOOSE r \in countryRules : r.code = countryCode

\* the length check that asks nothing when the code has no rules
isValidLengthKnownOnly(countryCode, digits) ==
  IF HasRules(countryCode)
    THEN Len(digits) \in RulesOf(countryCode).length
    ELSE TRUE

\* the length check with the calling code counted among the digits
isValidLengthWithCode(countryCode, digits) ==
  IF HasRules(countryCode)
    THEN Len(countryCode) + Len(digits) \in RulesOf(countryCode).length
    ELSE Len(countryCode) + Len(digits) >= 6 /\ Len(countryCode) + Len(digits) <= 14

\* rules.length.includes(digits.length) or digits.length === rules.length;
\* without rules, digits.length >= 6 && digits.length <= 14
isValidLength(countryCode, digits) ==
  IF HasRules(countryCode)
    THEN Len(digits) \in RulesOf(countryCode).length
    ELSE Len(digits) >= 6 /\ Len(digits) <= 14

\* rules.mobilePrefixes.includes(digits.slice(0, rules.mobilePrefixes[0].length));
\* true without rules
isValidMobilePrefix(countryCode, digits) ==
  IF HasRules(countryCode)
    THEN LET rules == RulesOf(countryCode)
             prefix == Slice(digits, 0, Len(rules.mobilePrefixes[1]))
         IN  \E n \in 1 .. Len(rules.mobilePrefixes) : rules.mobilePrefixes[n] = prefix
    ELSE TRUE

\* req.met after the forEach of the basic requirements: the placeholder of
\* the mobile prefix keeps its default, true
basicMet(phone) ==
  [n \in 1 .. 5 |-> IF n = 5 THEN TRUE ELSE Test(PhoneRegexes[n], phone)]

\* req.met of the five requirements when the function returns
phoneMet(phone) ==
  LET met == basicMet(phone)
  IN  IF countryCodeMatch(phone) # <<>>
        THEN LET countryCode == countryCodeOf(phone)
                 digits == digitsOf(phone, countryCode)
             IN  [met EXCEPT ![2] = met[2] /\ isValidLength(countryCode, digits),
                             ![5] = isValidMobilePrefix(countryCode, digits)]
        ELSE [met EXCEPT ![2] = FALSE, ![5] = TRUE]

\* every() that stops one requirement short
EveryButLast(met) == \A n \in 1 .. (Len(met) - 1) : met[n]

\* requirements.every(req => req.met)
Every(met) == \A n \in 1 .. Len(met) : met[n]

\* { isValid, requirements } from the met flags and the messages
ValidationResult(isValid, met, messages) ==
  [isValid |-> isValid,
   requirements |-> [n \in 1 .. Len(messages) |-> [met |-> met[n], message |-> messages[n]]]]

validateInternationalPhoneNumber(phone) ==
  IF NotStringOrEmpty(phone)
    THEN ValidationResult(FALSE, [n \in 1 .. 5 |-> FALSE], PhoneMessagesWhenEmpty)
    ELSE LET met == phoneMet(phone.s)
         IN  ValidationResult(Every(met), met, PhoneMessages)

(***************************************************************************)
(* checkPasswordComplexity and checkPasswordStrength                       *)
(***************************************************************************)
\* /^(?!\s)(?=\p{Lu}.*)(?=\p{Ll}.*)(?=\p{Number}.*)(?=[^\p{Letter}\p{Number}].*).{8,}$/u
ComplexityRegex ==
  Cat(<< Bol,
         NotAhead(Cls(WhiteSpace)),
         Ahead(Cat(<<Cls(UnicodeLu), Star(Dot)>>)),
         Ahead(Cat(<<Cls(UnicodeLl), Star(Dot)>>)),
         Ahead(Cat(<<Cls(UnicodeNumber), Star(Dot)>>)),
         Ahead(Cat(<<NCls(UnicodeLetter \cup UnicodeNumber), Star(Dot)>>)),
         RepFrom(Dot, 8),
         Eol >>)

checkPasswordComplexity(password) ==
  IF NotStringOrEmpty(password) THEN FALSE ELSE Test(ComplexityRegex, password.s)

\* /.{8,}/  /\p{Lu}/u  /\p{Ll}/u  /\p{Number}/u  /[^\p{Letter}\p{Number}\s]/u
\* /^(?!\s).*(?<!\s)$/
StrengthRegexes ==
  << RepFrom(Dot, 8),
     Cls(UnicodeLu),
     Cls(UnicodeLl),
     Cls(UnicodeNumber),
     NCls(UnicodeLetter \cup UnicodeNumber \cup WhiteSpace),
     Cat(<<Bol, NotAhead(Cls(WhiteSpace)), Star(Dot), NotBehind(Cls(WhiteSpace)), Eol>>) >>

StrengthMessages ==
  << "At least 8 characters",
     "At least one uppercase letter",
     "At least one lowercase letter",
     "At least one digit",
     "At least one special character",
     "No leading or trailing whitespace" >>

\* The messages of the object literal returned for a password that is not a
\* string or is empty
StrengthMessagesWhenEmpty ==
  << "At least 8 characters",
     "At least one uppercase letter",
     "At least one lowercase letter",
     "At least one digit",
     "At least one special character",
     "No leading or trailing whitespace" >>

\* req.met = req.regex.test(password) for each requirement
strengthMet(password) == [n \in 1 .. 6 |-> Test(StrengthRegexes[n], password)]

checkPasswordStrength(password) ==
  IF NotStringOrEmpty(password)
    THEN ValidationResult(FALSE, [n \in 1 .. 6 |-> FALSE], StrengthMessagesWhenEmpty)
    ELSE LET met == strengthMet(password.s)
         IN  ValidationResult(Every(met), met, StrengthMessages)

(***************************************************************************)
(* extractSocialMediaEntities                                              *)
(***************************************************************************)
\* /#[\p{L}\d_]+/gu
hashtagRegex == Cat(<<Lit("#"), Plus(Cls(UnicodeLetter \cup Digit \cup {"_"}))>>)

\* /@[\p{L}\d_]+/gu
mentionRegex == Cat(<<Lit("@"), Plus(Cls(UnicodeLetter \cup Digit \cup {"_"}))>>)

\* [\p{L}\d\-._~:/?#[\]@!$&'()*+,;=]
UrlClass ==
  Cls(UnicodeLetter \cup Digit \cup
      { "-", ".", "_", "~", ":", "/", "?", "#", "[", "]", "@", "!", "$", "&",
        "'", "(", ")", "*", "+", ",", ";", "=" })

\* /(?:https?:\/\/|www\.)[\p{L}\d\-._~:/?#[\]@!$&'()*+,;=]+/gu
urlRegex ==
  Cat(<< Alt(<< Cat(<< Lit("h"), Lit("t"), Lit("t"), Lit("p"), Opt(Lit("s")),
                      Lit(":"), Lit("/"), Lit("/") >>),
                Cat(<< Lit("w"), Lit("w"), Lit("w"), Lit(".") >>) >>),
         Plus(UrlClass) >>)

extractSocialMediaEntities(text) ==
  IF NotStringOrEmpty(text)
    THEN [hashtags |-> <<>>, mentions |-> <<>>, urls |-> <<>>]
    ELSE [hashtags |-> MatchAll(hashtagRegex, text.s),
          mentions |-> MatchAll(mentionRegex, text.s),
          urls |-> MatchAll(urlRegex, text.s)]

(***************************************************************************)
(* cleanString                                                             *)
(***************************************************************************)
\* An options argument: undefined (absent), null, or an object whose case
\* property is a JavaScript value and whose removeSpecial property is a
\* boolean (absent: false, the parameter's default)
NoOptions == [t |-> "undefined", case |-> Undefined, removeSpecial |-> FALSE]

NullOptions == [t |-> "null", case |-> Undefined, removeSpecial |-> FALSE]

Options(case, removeSpecial) ==
  [t |-> "object", case |-> case, removeSpecial |-> removeSpecial]

\* { case: caseOption = 'none' }: the default stands in for undefined only
caseOptionOf(options) ==
  IF options.t = "undefined" \/ options.case.t = "undefined"
    THEN Str(<<"n", "o", "n", "e">>)
    ELSE options.case

\* /\s+/g
SpacesRegex == Plus(Cls(WhiteSpace))

\* /[^\p{L}\p{Number}\s]/gu
SpecialRegex == NCls(UnicodeLetter \cup UnicodeNumber \cup WhiteSpace)

\* /\b\p{L}+\b/gu
TitleWordRegex == Cat(<<WordB, Plus(Cls(UnicodeLetter)), WordB>>)

\* word => word.charAt(0).toUpperCase() + word.slice(1).toLowerCase()
TitleWord(word) == ToUpperCase(Slice(word, 0, 1)) \o ToLowerCase(SliceFrom(word, 1))

\* text.replace(/\s+/g, ' ').trim()
Collapsed(text) == Trim(ReplaceAll(SpacesRegex, text, <<" ">>))

\* cleaned.replace(/[^\p{L}\p{Number}\s]/gu, '') when removeSpecial is set
Stripped(cleaned, removeSpecial) ==
  IF removeSpecial THEN ReplaceAll(SpecialRegex, cleaned, <<>>) ELSE cleaned

\* switch (caseOption.toLowerCase())
Cased(cleaned, caseOption) ==
  LET which == ToLowerCase(caseOption)
  IN  CASE which = <<"u", "p", "p", "e", "r">> -> ToUpperCase(cleaned)
        [] which = <<"l", "o", "w", "e", "r">> -> ToLowerCase(cleaned)
        [] which = <<"t", "i", "t", "l", "e">> ->
             ReplaceEach(TitleWordRegex, cleaned, TitleWord)
        [] OTHER -> cleaned

\* Whether the call ends in a TypeError: null cannot be destructured, and
\* only a string has toLowerCase
cleanStringThrows(text, options) ==
  \/ options.t = "null"
  \/ ~NotStringOrEmpty(text) /\ caseOptionOf(options).t # "string"

\* The value returned when the call does not throw
cleanString(text, options) ==
  IF NotStringOrEmpty(text) THEN <<>>
  ELSE Cased(Stripped(Collapsed(text.s), options.removeSpecial), caseOptionOf(options).s)

(***************************************************************************)
(* tokenizeText                                                            *)
(***************************************************************************)
\* /\p{L}+/gu
wordRegex == Plus(Cls(UnicodeLetter))

\* /\d+(?:\.\d+)?/g
numberRegex ==
  Cat(<<Plus(Cls(Digit)), Opt(Cat(<<Lit("."), Plus(Cls(Digit))>>))>>)

\* /[^\p{L}\p{Number}\s]/gu
punctuationRegex == NCls(UnicodeLetter \cup UnicodeNumber \cup WhiteSpace)

\* The hashtag pattern with \w in the place of [\p{L}\d_]
tokenizeHashtagRegexAscii == Cat(<<Lit("#"), Plus(Cls(WordChar))>>)

\* hashtagRegex of tokenizeText: /#[\p{L}\d_]+/gu
tokenizeHashtagRegex == Cat(<<Lit("#"), Plus(Cls(UnicodeLetter \cup Digit \cup {"_"}))>>)

\* mentionRegex of tokenizeText: /@[\p{L}\d_]+/gu
tokenizeMentionRegex == Cat(<<Lit("@"), Plus(Cls(UnicodeLetter \cup Digit \cup {"_"}))>>)

\* urlRegex of tokenizeText:
\* /(?:https?:\/\/|www\.)[\p{L}\d\-._~:/?#[\]@!$&'()*+,;=]+/gu
tokenizeUrlRegex ==
  Cat(<< Alt(<< Cat(<< Lit("h"), Lit("t"), Lit("t"), Lit("p"), Opt(Lit("s")),
                      Lit(":"), Lit("/"), Lit("/") >>),
                Cat(<< Lit("w"), Lit("w"), Lit("w"), Lit(".") >>) >>),
         Plus(Cls(UnicodeLetter \cup Digit \cup
                  { "-", ".", "_", "~", ":", "/", "?", "#", "[", "]", "@", "!", "$",
                    "&", "'", "(", ")", "*", "+", ",", ";", "=" })) >>)

tokenizeText(text) ==
  IF NotStringOrEmpty(text)
    THEN [words |-> <<>>, numbers |-> <<>>, punctuation |-> <<>>,
          hashtags |-> <<>>, mentions |-> <<>>, urls |-> <<>>]
    ELSE [words |-> MatchAll(wordRegex, text.s),
          numbers |-> MatchAll(numberRegex, text.s),
          punctuation |-> MatchAll(punctuationRegex, text.s),
          hashtags |-> MatchAll(tokenizeHashtagRegex, text.s),
          mentions |-> MatchAll(tokenizeMentionRegex, text.s),
          urls |-> MatchAll(tokenizeUrlRegex, text.s)]

(***************************************************************************)
(* The inputs of the calls.                                                *)
(***************************************************************************)
\* The longest string over an alphabet that is tried in full
MaxLen == 3

\* Every string over the alphabet A of at most n characters
Strings(A, n) == UNION { [1 .. k -> A] : k \in 0 .. n }

\* The string of n characters c
Repeat(c, n) == [k \in 1 .. n |-> c]

\* Arguments that are not strings
NonStrings == {Undefined, Null, Num}

\* The arguments of the calls at the end of the source file
TestEmails ==
  { <<"u","s","e","r","@","d","o","m","a","i","n",".","c","o","m">>,
    <<"i","n","v","a","l","i","d","@","d","o","m","a","i","n">>,
    <<"u","s","e","r",".","n","a","m","e","@","s","u","b",".","d","o","m","a","i","n",".","c","o","m">>,
    <<>> }

TestPhones ==
  { <<"+","1","2","0","2","5","5","5","0","1","2","3">>,
    <<"+","2","5","4","7","1","2","3","4","5","6","7","8">>,
    <<"+","4","4","7","1","2","3","4","5","6","7","8","9">>,
    <<"+","2","5","5","7","0","1","2","3","4","5","6","7">>,
    <<"+","9","1","9","8","7","6","5","4","3","2","1","0">>,
    <<"+","6","1","4","1","2","3","4","5","6","7","8">>,
    <<"+","2","3","4","8","0","3","1","2","3","4","5","6","7">>,
    <<"+","5","5","1","1","9","8","7","6","5","4","3","2","1">>,
    <<"+","4","9","1","5","1","1","2","3","4","5","6","7","8">>,
    <<"+","8","1","9","0","1","2","3","4","5","6","7","8">>,
    <<"1","2","3","4","5","6">>,
    <<"+","1","2","0","2","5","5","5","0","1","2","3","x">>,
    <<"+","2","5","4","1","2","3","4","5","6","7","8","9">>,
    <<"+","9","9","9","1","2","3","4","5","6","7","8">>,
    <<"+","2","5","4","6","1","2","3","4","5","6","7","8">>,
    <<"+","1"," ","(","2","0","2",")"," ","5","5","5","-","0","1","2","3">>,
    <<"0","0"," ","2","5","4"," ","7","1","2"," ","3","4","5"," ","6","7","8">> }

TestPasswords ==
  { <<"P","a","s","s","1","2","3","!","@","#">>,
    <<"p","a","s","s","1","2","3","!">>,
    <<"P","a","s","s","1","2","3">>,
    <<" ","P","a","s","s","1","2","3","!","@","#">> }

TokenizeExample ==
  << "H","e","l","l","o",","," ","w","o","r","l","d","!"," ",
     "1","2","3",".","4","5"," ","a","n","d"," ","@","u","s","e","r"," ",
     "#","c","o","d","i","n","g"," ",
     "h","t","t","p","s",":","/","/","e","x","a","m","p","l","e",".","c","o","m" >>

TestTexts ==
  { <<"H","e","l","l","o"," ","@","u","s","e","r"," ","#","c","o","d","i","n","g"," ",
      "h","t","t","p","s",":","/","/","e","x","a","m","p","l","e",".","c","o","m">>,
    <<" "," ","H","e","l","l","o"," "," "," ","W","o","r","l","d","!"," "," ">>,
    <<"H","e","l","l","o","!","!"," "," ","W","o","r","l","d","!","!","!">>,
    <<" "," ","T","E","S","T"," "," "," ","C","A","S","E"," "," ">>,
    TokenizeExample }

\* A few characters of each kind
SmallAlphabet == {"+", "0", "a", "A", " ", "!"}

\* What any operation may be handed
GeneralInputs ==
  NonStrings \cup
  { Str(s) : s \in Strings(SmallAlphabet, MaxLen) \cup TestEmails \cup TestPhones
                   \cup TestPasswords \cup TestTexts }

\* The names of the case transforms, and a name that is none of them
CaseNames ==
  { <<"u","p","p","e","r">>, <<"l","o","w","e","r">>, <<"t","i","t","l","e">>,
    <<"n","o","n","e">>, <<"T","i","t","l","e">>, <<"o","t","h","e","r">> }

\* The options a caller may pass
OptionValues ==
  {NoOptions, NullOptions} \cup
  { Options(c, r) : c \in {Undefined, Null, Num} \cup { Str(n) : n \in CaseNames },
                    r \in BOOLEAN }

(***************************************************************************)
(* Phone numbers built from the numbering plan.                            *)
(***************************************************************************)
\* The longest national number that is tried
MaxNational == 12

\* The digits a national number is filled up with
FillDigits == {"0", "5"}

\* A listed mobile prefix of the entry r, or one with a single digit changed
Heads(r) ==
  { [p EXCEPT ![k] = d] :
      p \in Range(r.mobilePrefixes), k \in 1 .. Len(r.mobilePrefixes[1]), d \in Digit }

\* lead, calling code, sep, then a national number of n digits that begins
\* with head
Number(lead, code, sep, head, d, n) ==
  lead \o code \o sep \o head \o Repeat(d, n - Len(head))

\* "+" and a calling code of the plan, a listed or changed prefix, and 8 to
\* MaxNational national digits
PlanNumbers ==
  { Number(<<"+">>, r.code, <<>>, h, d, n) :
      <<r, h>> \in { <<r, h>> \in countryRules \X Strings(Digit, 3) : h \in Heads(r) },
      d \in FillDigits, n \in (MaxNational - 4) .. MaxNational }

\* The same with "00" or no prefix in front, or a separator after the calling
\* code, for the listed prefixes
VariantNumbers ==
  { Number(lead, r.code, sep, r.mobilePrefixes[1], "5", n) :
      lead \in { <<"0", "0">>, <<>>, <<"0">> }, sep \in { <<>>, <<" ">>, <<"-">>, <<"x">> },
      r \in countryRules, n \in (MaxNational - 6) .. MaxNational }
  \cup
  { Number(<<"+">>, r.code, sep, r.mobilePrefixes[1], "5", n) :
      sep \in { <<" ">>, <<"-">>, <<"(">>, <<"x">> },
      r \in countryRules, n \in (MaxNational - 6) .. MaxNational }

\* Numbers of calling codes the plan does not have, of 2 digits after the
\* code and more, with "+" or "00" in front and a separator or none
UnknownCodeNumbers ==
  { Number(lead, code, sep, <<>>, "5", n) :
      lead \in { <<"+">>, <<"0", "0">> }, code \in { <<"9","9","9">>, <<"3","0">>, <<"7">> },
      sep \in { <<>>, <<" ">>, <<"-">>, <<"x">> }, n \in 2 .. (MaxNational + 1) }

PhoneInputs ==
  NonStrings \cup
  { Str(s) : s \in PlanNumbers \cup VariantNumbers \cup UnknownCodeNumbers \cup TestPhones
                   \cup Strings({"+", "0", "1", " "}, MaxLen) }

(***************************************************************************)
(* Email addresses and phone strings to format.                            *)
(***************************************************************************)
\* The longest email address over EmailAlphabet that is tried in full
MaxEmailLen == 6

\* A letter, a digit and the two delimiters of an address
EmailAlphabet == {"a", "1", "@", "."}

\* A shortest valid address
ShortEmail == <<"a", "@", "b", ".", "c", "d">>

\* Characters of the other kinds
ProbeChars ==
  {"Z", "%", "+", "-", "_", "!", " ", "\n", "U+00E9", "@", ".", "7"}

\* s with the character c put before its character k (after the last one for
\* k = Len(s) + 1)
InsertAt(s, k, c) == Slice(s, 0, k - 1) \o <<c>> \o SliceFrom(s, k - 1)

\* A shortest valid address with one character inserted or replaced
ProbedEmails ==
  { InsertAt(ShortEmail, k, c) : k \in 1 .. (Len(ShortEmail) + 1), c \in ProbeChars }
  \cup { [ShortEmail EXCEPT ![k] = c] : k \in 1 .. Len(ShortEmail), c \in ProbeChars }

\* Local parts and top-level domains at the ends of the lengths allowed
LongEmails ==
  { Repeat("a", l) \o <<"@">> \o Repeat("b", d) \o <<".">> \o Repeat("c", n) :
      l \in {1, 2, 63, 64, 65}, d \in {0, 1, 70}, n \in {1, 2, 3, 62, 63, 64} }

EmailInputs ==
  NonStrings \cup
  { Str(s) : s \in Strings(EmailAlphabet, MaxEmailLen) \cup ProbedEmails
                   \cup LongEmails \cup TestEmails }

\* The most digits a phone string to format has
MaxDigits == 17

\* What a phone string to format may begin with
FormatLeads ==
  { <<>>, <<"+">>, <<"0", "0">>, <<" ", "0", "0">>, <<"0", " ", "0">>,
    <<"(", "0", "0">>, <<"+", " ">>, <<"(", "+">>, <<"0">>, <<"+", "+">>,
    <<"+", "0", "0">> }

\* Separators, and characters that are none
FormatMarks == { <<>>, <<" ">>, <<"-">>, <<"(">>, <<")">>, <<"\t">>, <<"x">>, <<".">> }

\* A lead, then n digits d with the mark after the first k of them (after
\* the last when k is more than n)
FormatInputsOf(lead, d, n, mark, k) ==
  lead \o Repeat(d, IF k < n THEN k ELSE n) \o mark \o Repeat(d, IF k < n THEN n - k ELSE 0)

FormatInputs ==
  NonStrings \cup
  { Str(s) : s \in TestPhones \cup Strings({"+", "0", "1", " ", "x"}, MaxLen) }
  \cup
  { Str(FormatInputsOf(lead, d, n, mark, k)) :
      lead \in FormatLeads, d \in {"0", "1"}, n \in 4 .. MaxDigits,
      mark \in FormatMarks, k \in {0, 3, MaxDigits} }

(***************************************************************************)
(* Passwords.                                                              *)
(***************************************************************************)
\* The longest password of one repeated character that is tried
MaxPassword == 9

\* A password that meets the six requirements with no character to spare
BasePassword == <<"P", "a", "s", "s", "1", "2", "3", "!">>

\* Characters of every class the six patterns tell apart, the line breaks
\* included
PasswordChars ==
  { "a", "A", "1", "!", "_", " ", "\t", "\n", "\r", "U+00A0",
    "U+00E9", "U+00C9", "U+4E2D", "U+0663" }

\* The base password with one character inserted or replaced, runs of one
\* character, and every short string
PasswordInputs ==
  NonStrings \cup
  { Str(s) : s \in
      { InsertAt(BasePassword, k, c) : k \in 1 .. (Len(BasePassword) + 1), c \in PasswordChars }
      \cup { [BasePassword EXCEPT ![k] = c] : k \in 1 .. Len(BasePassword), c \in PasswordChars }
      \cup { Repeat(c, n) : c \in PasswordChars, n \in 1 .. MaxPassword }
      \cup Strings({"a", "A", "1", "!", " ", "\n"}, MaxLen)
      \cup TestPasswords }

(***************************************************************************)
(* The state machine: a caller calls one operation, reads what it returned *)
(* (or the exception it threw) and discards it before the next call.       *)
(***************************************************************************)
Init ==
  /\ op = "none"
  /\ arg = Undefined
  /\ opts = NoOptions
  /\ outcome = "none"
  /\ ret = <<>>

\* No call is in progress and no result is being read
Idle == op = "none"

ValidateEmail(In) ==
  /\ Idle
  /\ \E v \in In :
       /\ op' = "validateEmail"
       /\ arg' = v
       /\ opts' = NoOptions
       /\ outcome' = "return"
       /\ ret' = validateEmail(v)

ValidatePhone(In) ==
  /\ Idle
  /\ \E v \in In :
       /\ op' = "validateInternationalPhoneNumber"
       /\ arg' = v
       /\ opts' = NoOptions
       /\ outcome' = "return"
       /\ ret' = validateInternationalPhoneNumber(v)

FormatPhone(In) ==
  /\ Idle
  /\ \E v \in In :
       /\ op' = "formatPhoneNumber"
       /\ arg' = v
       /\ opts' = NoOptions
       /\ outcome' = "return"
       /\ ret' = formatPhoneNumber(v)

CheckComplexity(In) ==
  /\ Idle
  /\ \E v \in In :
       /\ op' = "checkPasswordComplexity"
       /\ arg' = v
       /\ opts' = NoOptions
       /\ outcome' = "return"
       /\ ret' = checkPasswordComplexity(v)

CheckStrength(In) ==
  /\ Idle
  /\ \E v \in In :
       /\ op' = "checkPasswordStrength"
       /\ arg' = v
       /\ opts' = NoOptions
       /\ outcome' = "return"
       /\ ret' = checkPasswordStrength(v)

ExtractEntities(In) ==
  /\ Idle
  /\ \E v \in In :
       /\ op' = "extractSocialMediaEntities"
       /\ arg' = v
       /\ opts' = NoOptions
       /\ outcome' = "return"
       /\ ret' = extractSocialMediaEntities(v)

\* The call returns a string, or ends in a TypeError
CleanString(In, Os) ==
  /\ Idle
  /\ \E v \in In, o \in Os :
       /\ op' = "cleanString"
       /\ arg' = v
       /\ opts' = o
       /\ outcome' = IF cleanStringThrows(v, o) THEN "throw" ELSE "return"
       /\ ret' = IF cleanStringThrows(v, o) THEN <<>> ELSE cleanString(v, o)

TokenizeText(In) ==
  /\ Idle
  /\ \E v \in In :
       /\ op' = "tokenizeText"
       /\ arg' = v
       /\ opts' = NoOptions
       /\ outcome' = "return"
       /\ ret' = tokenizeText(v)

\* The demo page's handler of the phone field: on every input it validates
\* and formats what the field holds, and shows both
PhoneInputHandler(In) ==
  /\ Idle
  /\ \E v \in In :
       /\ op' = "phoneInput"
       /\ arg' = v
       /\ opts' = NoOptions
       /\ outcome' = "return"
       /\ ret' = [result |-> validateInternationalPhoneNumber(v),
                  formatted |-> formatPhoneNumber(v)]

\* The caller drops the result
Discard ==
  /\ ~Idle
  /\ op' = "none"
  /\ arg' = Undefined
  /\ opts' = NoOptions
  /\ outcome' = "none"
  /\ ret' = <<>>

Next ==
  \/ ValidateEmail(GeneralInputs)
  \/ ValidatePhone(GeneralInputs)
  \/ FormatPhone(GeneralInputs)
  \/ CheckComplexity(GeneralInputs)
  \/ CheckStrength(GeneralInputs)
  \/ ExtractEntities(GeneralInputs)
  \/ CleanString(GeneralInputs, OptionValues)
  \/ TokenizeText(GeneralInputs)
  \/ Discard

Spec == Init /\ [][Next]_vars

\* The phone validator alone, on the numbers built from the numbering plan
NextPhone == ValidatePhone(PhoneInputs) \/ Discard

SpecPhone == Init /\ [][NextPhone]_vars

\* The email validator alone
NextEmail == ValidateEmail(EmailInputs) \/ Discard

SpecEmail == Init /\ [][NextEmail]_vars

\* The phone formatter alone
NextFormat == FormatPhone(FormatInputs) \/ Discard

SpecFormat == Init /\ [][NextFormat]_vars

\* Texts to put in title case: runs of letters next to digits, underscores,
\* punctuation and spaces, with letters outside ASCII
TitleInputs ==
  NonStrings \cup
  { Str(s) : s \in Strings({"a", "B", "1", "_", "U+00E9", "U+00DF", " ", "!"}, MaxLen)
                   \cup { <<"a","b","c","1","2","3">>,
                          <<"h","e","l","l","o","_","w","o","r","l","d">>,
                          <<"U+00C9","C","O","L","E">> }
                   \cup TestTexts }

TitleOptions == { NoOptions } \cup { Options(Str(<<"t","i","t","l","e">>), r) : r \in BOOLEAN }

\* cleanString alone, asked for title case
NextTitle == CleanString(TitleInputs, TitleOptions) \/ Discard

SpecTitle == Init /\ [][NextTitle]_vars

\* Texts with hashtags, mentions and urls: every short string over the
\* characters that begin and make up an entity, and longer ones with an
\* entity twice, entities side by side and urls of each scheme
EntityInputs ==
  NonStrings \cup
  { Str(s) : s \in Strings({"#", "@", "a", "_", "U+00E9", " "}, MaxLen)
                   \cup { <<"#","a"," ","#","a"," ","@","b"," ","@","b"," ","w","w","w",".","c"," ","w","w","w",".","c">>,
                          <<"#","a","@","b","#","c">>,
                          <<"h","t","t","p",":","/","/","a",".","b","/","#","c","?","d","=","@","e">>,
                          <<"h","t","t","p","s",":","/","/","U+00E9"," ","h","t","t","p","s",":","/","/">>,
                          <<"w","w","w",".","w","w","w","."," ","W","W","W",".","a">>,
                          <<"#","U+4E2D","1","_"," ","@","U+0663"," ","#","!">> }
                   \cup TestTexts }

\* The two operations that find hashtags, mentions and urls
NextEntities == ExtractEntities(EntityInputs) \/ TokenizeText(EntityInputs) \/ Discard

SpecEntities == Init /\ [][NextEntities]_vars

\* The phone field of the demo page (a text field holds a string)
NextPhoneField ==
  PhoneInputHandler({ v \in PhoneInputs \cup FormatInputs : v.t = "string" }) \/ Discard

SpecPhoneField == Init /\ [][NextPhoneField]_vars

\* The password strength check alone
NextStrength == CheckStrength(PasswordInputs) \/ Discard

SpecStrength == Init /\ [][NextStrength]_vars

(***************************************************************************)
(* C1: checkPasswordComplexity                                             *)
(***************************************************************************)
\* The six conditions of the password contract
MeetsComplexity(s) ==
  /\ Len(s) >= 8
  /\ \E i \in 1 .. Len(s) : s[i] \in UnicodeLu
  /\ \E i \in 1 .. Len(s) : s[i] \in UnicodeLl
  /\ \E i \in 1 .. Len(s) : s[i] \in UnicodeNumber
  /\ \E i \in 1 .. Len(s) :
       s[i] \notin UnicodeLetter \cup UnicodeNumber \cup WhiteSpace
  /\ s[1] \notin WhiteSpace

\* C1: checkPasswordComplexity(p) is true if and only if p is a string of at
\* least 8 characters with an uppercase letter, a lowercase letter, a digit,
\* a character that is neither letter, digit nor whitespace, and a first
\* character that is not whitespace (so it is true for "Pass123!@#").
C1_ComplexityContract ==
  (op = "checkPasswordComplexity" /\ outcome = "return")
    => (ret <=> (arg.t = "string" /\ MeetsComplexity(arg.s)))

(***************************************************************************)
(* C2: cleanString is idempotent                                           *)
(***************************************************************************)
\* C2: cleaning the result of cleanString(s, o) again with the same options o
\* returns it unchanged.
C2_CleanIdempotent ==
  (op = "cleanString" /\ outcome = "return")
    => /\ ~cleanStringThrows(Str(ret), opts)
       /\ cleanString(Str(ret), opts) = ret

(***************************************************************************)
(* C3, C4, C5: the numbering plan                                          *)
(***************************************************************************)
\* s is "+", the calling code of r, and a national number of digits only
\* whose length the entry r lists
IsPlanNumber(s, r) ==
  LET k == 1 + Len(r.code)
  IN  /\ Len(s) - k \in r.length
      /\ Slice(s, 0, k) = <<"+">> \o r.code
      /\ \A j \in (k + 1) .. Len(s) : s[j] \in Digit

\* The leading digits of the national number of s, as many as a mobile
\* prefix of r has
HeadOf(s, r) == Slice(s, 1 + Len(r.code), 1 + Len(r.code) + Len(r.mobilePrefixes[1]))

\* The mobile prefixes of r, as a set
Listed(r) == Range(r.mobilePrefixes)

\* h is a listed prefix with exactly one digit changed
OneDigitOff(h, r) ==
  \E p \in Listed(r) :
    Len(h) = Len(p) /\ Cardinality({ k \in 1 .. Len(p) : h[k] # p[k] }) = 1

\* The met flags 1 to 4 of the result
FirstFourMet == \A n \in 1 .. 4 : ret.requirements[n].met

\* C3: for each calling code of the plan, a number of the right length whose
\* mobile prefix is a listed one with one digit changed, and is itself not
\* listed, fails requirement 5 (and is invalid) while requirements 1 to 4
\* stay met.
C3_ChangedPrefixFailsFive ==
  \A r \in countryRules :
    ( /\ op = "validateInternationalPhoneNumber"
      /\ arg.t = "string"
      /\ IsPlanNumber(arg.s, r)
      /\ HeadOf(arg.s, r) \notin Listed(r)
      /\ OneDigitOff(HeadOf(arg.s, r), r) )
      => /\ ~ret.requirements[5].met
         /\ ~ret.isValid
         /\ FirstFourMet

\* C4: for each calling code of the plan, "+", the code and a national
\* number of digits of a listed length that begins with a listed mobile
\* prefix meets all five requirements and is valid.
C4_ListedNumberIsValid ==
  \A r \in countryRules :
    ( /\ op = "validateInternationalPhoneNumber"
      /\ arg.t = "string"
      /\ IsPlanNumber(arg.s, r)
      /\ HeadOf(arg.s, r) \in Listed(r) )
      => /\ \A n \in 1 .. 5 : ret.requirements[n].met
         /\ ret.isValid

\* A German number of 11 national digits with a listed prefix, found valid
C4_Witness ==
  /\ op = "validateInternationalPhoneNumber"
  /\ arg.t = "string"
  /\ \E r \in countryRules :
       /\ r.code = <<"4", "9">>
       /\ IsPlanNumber(arg.s, r)
       /\ Len(arg.s) = 14
       /\ HeadOf(arg.s, r) \in Listed(r)
  /\ ret.isValid

\* s begins with lead, the calling code and a digit
BeginsWithCode(s, lead, code) ==
  /\ Slice(s, 0, Len(lead) + Len(code)) = lead \o code
  /\ Len(s) > Len(lead) + Len(code)
  /\ s[Len(lead) + Len(code) + 1] \in Digit

\* The number of digits of s after its first k characters
DigitsAfter(s, k) == Cardinality({ j \in (k + 1) .. Len(s) : s[j] \in Digit })

\* C5: when the string begins with "+" or "00", a calling code of the plan
\* and a digit, requirement 2 is met only if the number of digits after the
\* calling code is a national length the plan lists for that code.
C5_LengthOfThePlan ==
  \A r \in countryRules, lead \in { <<"+">>, <<"0", "0">> } :
    ( /\ op = "validateInternationalPhoneNumber"
      /\ arg.t = "string"
      /\ BeginsWithCode(arg.s, lead, r.code)
      /\ ret.requirements[2].met )
      => DigitsAfter(arg.s, Len(lead) + Len(r.code)) \in r.length

(***************************************************************************)
(* C6: the tokens of the documented example                                *)
(***************************************************************************)
\* C6: tokenizeText of the documented example reports the words Hello, world
\* and and, the number 123.45, the punctuation "," and "!", the hashtag
\* #coding, the mention @user and the url https://example.com, and nothing
\* from inside the mention, the hashtag, the url or the number.
C6_TokenizeExample ==
  (op = "tokenizeText" /\ arg = Str(TokenizeExample))
    => ret = [ words |-> << <<"H","e","l","l","o">>, <<"w","o","r","l","d">>,
                            <<"a","n","d">> >>,
               numbers |-> << <<"1","2","3",".","4","5">> >>,
               punctuation |-> << <<",">>, <<"!">> >>,
               hashtags |-> << <<"#","c","o","d","i","n","g">> >>,
               mentions |-> << <<"@","u","s","e","r">> >>,
               urls |-> << <<"h","t","t","p","s",":","/","/","e","x","a","m","p",
                             "l","e",".","c","o","m">> >> ]

(***************************************************************************)
(* C7: isValid is the conjunction of the requirements                      *)
(***************************************************************************)
\* The operations that return a ValidationResult
Validators == {"validateInternationalPhoneNumber", "checkPasswordStrength"}

\* C7: in every result of validateInternationalPhoneNumber and of
\* checkPasswordStrength, isValid is true if and only if every requirement
\* is met.
C7_IsValidIffAllMet ==
  (op \in Validators)
    => (ret.isValid <=> \A n \in 1 .. Len(ret.requirements) : ret.requirements[n].met)

\* A phone number that fails the mobile prefix alone, and is reported invalid
C7_Witness ==
  /\ op = "validateInternationalPhoneNumber"
  /\ arg.t = "string"
  /\ \A n \in 1 .. 4 : ret.requirements[n].met
  /\ ~ret.requirements[5].met
  /\ ~ret.isValid

(***************************************************************************)
(* C8: formatPhoneNumber                                                   *)
(***************************************************************************)
\* s begins with two zeros
BeginsWithZeros(s) == Len(s) >= 2 /\ s[1] = "0" /\ s[2] = "0"

\* s without its whitespace, hyphens and parentheses
WithoutSeparators(s) ==
  SelectSeq(s, LAMBDA c : c \notin WhiteSpace \cup {"-", "(", ")"})

\* "+" followed by 6 to 15 digits, and nothing else
IsCanonical(n) ==
  /\ Len(n) >= 7
  /\ Len(n) <= 16
  /\ n[1] = "+"
  /\ \A j \in 2 .. Len(n) : n[j] \in Digit

\* n of the claim: a leading "00" replaced by "+", then the separators removed
NormalForm(p) ==
  WithoutSeparators(IF BeginsWithZeros(p) THEN <<"+">> \o SliceFrom(p, 2) ELSE p)

\* C8: for a non-empty string p, formatPhoneNumber(p) is n (p with a leading
\* "00" replaced by "+" and then the separators removed) when n is "+" and 6
\* to 15 digits, and the empty string otherwise; a string whose "00" is
\* leading only once the separators are removed gives the empty string.
C8_FormatContract ==
  (op = "formatPhoneNumber" /\ arg.t = "string" /\ Len(arg.s) > 0)
    => /\ ret = IF IsCanonical(NormalForm(arg.s)) THEN NormalForm(arg.s) ELSE <<>>
       /\ (~BeginsWithZeros(arg.s) /\ BeginsWithZeros(WithoutSeparators(arg.s)))
            => ret = <<>>

\* A string of separators and digits whose "00" is leading only after the
\* separators are removed, with digits enough for a number: not formatted
C8_Witness ==
  /\ op = "formatPhoneNumber"
  /\ arg.t = "string"
  /\ ~BeginsWithZeros(arg.s)
  /\ BeginsWithZeros(WithoutSeparators(arg.s))
  /\ IsCanonical(<<"+">> \o SliceFrom(WithoutSeparators(arg.s), 2))
  /\ ret = <<>>

(***************************************************************************)
(* C9: no operation throws                                                 *)
(***************************************************************************)
\* What each operation documents for a text that is no string or is empty
DocumentedDefault(name) ==
  CASE name \in {"validateEmail", "checkPasswordComplexity"} -> FALSE
    [] name \in {"formatPhoneNumber", "cleanString"} -> <<>>
    [] name = "validateInternationalPhoneNumber" ->
         ValidationResult(FALSE, [n \in 1 .. 5 |-> FALSE], PhoneMessages)
    [] name = "checkPasswordStrength" ->
         ValidationResult(FALSE, [n \in 1 .. 6 |-> FALSE], StrengthMessages)
    [] name = "extractSocialMediaEntities" ->
         [hashtags |-> <<>>, mentions |-> <<>>, urls |-> <<>>]
    [] name = "tokenizeText" ->
         [words |-> <<>>, numbers |-> <<>>, punctuation |-> <<>>,
          hashtags |-> <<>>, mentions |-> <<>>, urls |-> <<>>]

\* C9: no call ends in a thrown exception, and a call whose text is no string
\* or is the empty string returns the documented default, whatever the
\* options of cleanString are.
C9_NeverThrows ==
  (~Idle)
    => /\ outcome = "return"
       /\ NotStringOrEmpty(arg) => ret = DocumentedDefault(op)

(***************************************************************************)
(* C10: validateEmail                                                      *)
(***************************************************************************)
\* Every character of s from a + 1 to b is in the set S
AllIn(s, a, b, S) == \A k \in (a + 1) .. b : s[k] \in S

\* local "@" domain "." tld, the "@" at i and the "." at j
IsEmailAt(s, i, j) ==
  /\ s[i] = "@"
  /\ s[j] = "."
  /\ i - 1 >= 1
  /\ i - 1 <= 64
  /\ AllIn(s, 0, i - 1, AsciiLetter \cup Digit \cup {".", "_", "%", "+", "-"})
  /\ j - i - 1 >= 1
  /\ AllIn(s, i, j - 1, AsciiLetter \cup Digit \cup {".", "-"})
  /\ Len(s) - j >= 2
  /\ Len(s) - j <= 63
  /\ AllIn(s, j, Len(s), AsciiLetter)

\* The whole string has the shape of an address
IsEmail(s) == \E i \in 1 .. Len(s), j \in 1 .. Len(s) : i < j /\ IsEmailAt(s, i, j)

\* C10: validateEmail(s) is true if and only if the whole string s is a local
\* part of 1 to 64 characters (letters, digits, . _ % + -), "@", a domain of
\* one or more characters (letters, digits, . -), "." and 2 to 63 letters; the
\* empty string and a string with more before or after that shape are
\* rejected.
C10_EmailContract ==
  (op = "validateEmail")
    => (ret <=> (arg.t = "string" /\ IsEmail(arg.s)))

\* An address whose local part has the 64 characters allowed, accepted
C10_Witness ==
  /\ op = "validateEmail"
  /\ arg.t = "string"
  /\ Len(arg.s) > 64
  /\ arg.s[65] = "@"
  /\ ret = TRUE

(***************************************************************************)
(* C11: the requirements keep their number and their order                 *)
(***************************************************************************)
\* The messages of a validation result, in the order of its requirements
MessagesOf(result) ==
  [n \in 1 .. Len(result.requirements) |-> result.requirements[n].message]

\* C11: validateInternationalPhoneNumber returns exactly five requirements
\* and checkPasswordStrength exactly six, and the messages are the same
\* sequence for every input, a missing, non-string or empty one included.
C11_RequirementsKeepTheirOrder ==
  /\ (op = "validateInternationalPhoneNumber" /\ outcome = "return")
       => /\ Len(ret.requirements) = 5
          /\ MessagesOf(ret) = MessagesOf(validateInternationalPhoneNumber(
                                            Str(<<"+","2","5","4","7","1","2","3","4","5","6","7","8">>)))
  /\ (op = "checkPasswordStrength" /\ outcome = "return")
       => /\ Len(ret.requirements) = 6
          /\ MessagesOf(ret) = MessagesOf(checkPasswordStrength(
                                            Str(<<"P","a","s","s","1","2","3","!","@","#">>)))

\* The phone validator has answered for an argument that is no string
C11_Witness ==
  /\ op = "validateInternationalPhoneNumber"
  /\ outcome = "return"
  /\ arg.t # "string"
  /\ Len(ret.requirements) = 5
  /\ ~ret.isValid

(***************************************************************************)
(* C12: the six requirements of checkPasswordStrength                      *)
(***************************************************************************)
\* Some character of s is in the set S
Contains(s, S) == \E i \in 1 .. Len(s) : s[i] \in S

\* What each requirement asks of the password s, read off the characters of
\* s one by one ("digit" taken as widely as the pattern takes it)
StrengthContract(s) ==
  << Len(s) >= 8,
     Contains(s, UnicodeLu),
     Contains(s, UnicodeLl),
     Contains(s, UnicodeNumber),
     Contains(s, Char \ (UnicodeLetter \cup UnicodeNumber \cup WhiteSpace)),
     s[1] \notin WhiteSpace /\ s[Len(s)] \notin WhiteSpace >>

\* C12: for every non-empty string p, line breaks allowed, requirement 1 is
\* met iff p has 8 characters or more, 2 iff it has an uppercase letter, 3
\* iff a lowercase letter, 4 iff a digit, 5 iff a character that is no
\* letter, digit or whitespace, 6 iff neither its first nor its last
\* character is whitespace.
C12_StrengthRequirements ==
  (op = "checkPasswordStrength" /\ outcome = "return" /\ ~NotStringOrEmpty(arg))
    => \A n \in 1 .. 6 : ret.requirements[n].met = StrengthContract(arg.s)[n]

(***************************************************************************)
(* C14: requirement 2 for a calling code the plan does not have            *)
(***************************************************************************)
\* The length of the prefix of s, "+" or "00" (0: s has neither)
LeadLength(s) ==
  IF Len(s) >= 1 /\ s[1] = "+" THEN 1
  ELSE IF BeginsWithZeros(s) THEN 2
  ELSE 0

\* The run of up to 3 digits directly after the prefix of s
ExtractedCode(s) ==
  LET k == LeadLength(s)
      run == { n \in 0 .. 3 : k + n <= Len(s) /\ \A j \in (k + 1) .. (k + n) : s[j] \in Digit }
  IN  Slice(s, k, k + CHOOSE n \in run : \A l \in run : l <= n)

\* The generic shape: after the prefix, 6 to 14 characters that are digits,
\* whitespace, hyphens or parentheses, and then a last digit
GenericShape(s) ==
  LET k == LeadLength(s)
  IN  /\ k > 0
      /\ Len(s) - k >= 7
      /\ Len(s) - k <= 15
      /\ \A j \in (k + 1) .. Len(s) : s[j] \in Digit \cup WhiteSpace \cup {"-", "(", ")"}
      /\ s[Len(s)] \in Digit

\* C14: when the run of up to 3 digits after "+" or "00" is not a calling
\* code of the plan, requirement 2 is met exactly when the generic shape
\* holds; no other condition on the length applies.
C14_UnknownCodeGenericShape ==
  ( /\ op = "validateInternationalPhoneNumber"
    /\ arg.t = "string"
    /\ LeadLength(arg.s) > 0
    /\ ExtractedCode(arg.s) # <<>>
    /\ \A r \in countryRules : r.code # ExtractedCode(arg.s) )
    => (ret.requirements[2].met <=> GenericShape(arg.s))

\* C14, amended: when the run of up to 3 digits after "+" or "00" is not a
\* calling code of the plan, requirement 2 is met exactly when the generic
\* shape holds and the number of digits of the whole string, less the length
\* of that run, is between 6 and 14.
C14_UnknownCodeShapeAndDigits ==
  ( /\ op = "validateInternationalPhoneNumber"
    /\ arg.t = "string"
    /\ LeadLength(arg.s) > 0
    /\ ExtractedCode(arg.s) # <<>>
    /\ \A r \in countryRules : r.code # ExtractedCode(arg.s) )
    => (ret.requirements[2].met <=>
          /\ GenericShape(arg.s)
          /\ DigitsAfter(arg.s, 0) - Len(ExtractedCode(arg.s)) >= 6
          /\ DigitsAfter(arg.s, 0) - Len(ExtractedCode(arg.s)) <= 14)

\* A number of an unknown code has the generic shape and too few digits, and
\* requirement 2 is not met
C14_Witness ==
  /\ op = "validateInternationalPhoneNumber"
  /\ arg.t = "string"
  /\ LeadLength(arg.s) > 0
  /\ ExtractedCode(arg.s) = <<"9", "9", "9">>
  /\ GenericShape(arg.s)
  /\ DigitsAfter(arg.s, 0) - 3 < 6
  /\ ~ret.requirements[2].met

(***************************************************************************)
(* C15: title case                                                         *)
(***************************************************************************)
\* Every maximal run of letters of s with its first letter in upper case and
\* its other letters in lower case, the other characters as they are
TitleCased(s) ==
  Flatten([i \in 1 .. Len(s) |->
             IF s[i] \notin UnicodeLetter THEN <<s[i]>>
             ELSE IF i = 1 \/ s[i - 1] \notin UnicodeLetter THEN UpperOf(s[i])
             ELSE LowerOf(s[i])])

\* C15: cleanString with case "title" puts every maximal run of letters of
\* the whitespace-normalised text in title case and leaves the other
\* characters as they are, also when the run is next to a digit or an
\* underscore or has letters outside ASCII.
C15_TitleCase ==
  ( /\ op = "cleanString"
    /\ outcome = "return"
    /\ ~NotStringOrEmpty(arg)
    /\ opts.t = "object"
    /\ opts.case = Str(<<"t","i","t","l","e">>) )
    => ret = TitleCased(cleanString(arg, Options(Undefined, opts.removeSpecial)))

(***************************************************************************)
(* C16: tokenizeText and extractSocialMediaEntities find the same entities *)
(***************************************************************************)
\* The hashtags, mentions and urls of a result of either operation
EntitiesOf(result) ==
  [hashtags |-> result.hashtags, mentions |-> result.mentions, urls |-> result.urls]

\* C16: for every text, the hashtags, mentions and urls of tokenizeText are
\* those of extractSocialMediaEntities, element by element, in the same
\* order, duplicates kept.
C16_SameEntities ==
  /\ (op = "tokenizeText" /\ outcome = "return")
       => EntitiesOf(ret) = EntitiesOf(extractSocialMediaEntities(arg))
  /\ (op = "extractSocialMediaEntities" /\ outcome = "return")
       => EntitiesOf(ret) = EntitiesOf(tokenizeText(arg))

\* tokenizeText has found a hashtag twice, a mention twice and a url twice
C16_Witness ==
  /\ op = "tokenizeText"
  /\ outcome = "return"
  /\ Len(ret.hashtags) = 2 /\ ret.hashtags[1] = ret.hashtags[2]
  /\ Len(ret.mentions) = 2 /\ ret.mentions[1] = ret.mentions[2]
  /\ Len(ret.urls) = 2 /\ ret.urls[1] = ret.urls[2]

(***************************************************************************)
(* C17: the prefixes "+" and "00"                                          *)
(***************************************************************************)
\* The met flags of a validation result, in the order of its requirements
MetOf(result) == [n \in 1 .. Len(result.requirements) |-> result.requirements[n].met]

\* C17: for every string r, validateInternationalPhoneNumber("00" + r) and
\* validateInternationalPhoneNumber("+" + r) report the same met flag for
\* each of the five requirements and the same isValid.
C17_PrefixesInterchangeable ==
  ( /\ op = "validateInternationalPhoneNumber"
    /\ outcome = "return"
    /\ arg.t = "string"
    /\ BeginsWithZeros(arg.s) )
    => LET plus == validateInternationalPhoneNumber(Str(<<"+">> \o SliceFrom(arg.s, 2)))
       IN  MetOf(ret) = MetOf(plus) /\ ret.isValid = plus.isValid

(***************************************************************************)
(* C18: a phone string that validates can be formatted                     *)
(***************************************************************************)
\* C18: for every string p, if validateInternationalPhoneNumber(p).isValid
\* is true then formatPhoneNumber(p) is not empty: it is "+" followed by 6
\* to 15 digits.
C18_ValidCanBeFormatted ==
  (op = "phoneInput" /\ outcome = "return" /\ ret.result.isValid)
    => (ret.formatted # <<>> /\ IsCanonical(ret.formatted))

\* A valid number written with "00" or with a separator has been formatted
C18_Witness ==
  /\ op = "phoneInput"
  /\ outcome = "return"
  /\ ret.result.isValid
  /\ ret.formatted # arg.s
  /\ IsCanonical(ret.formatted)

====
